---- MODULE Spec2Model ----
(***************************************************************************)
(* Model of the 64-bit Interrupt Descriptor Table of the SOS kernel        *)
(* (src/arch/x86_64/cpu/interrupts.rs): the global IDT behind its spin     *)
(* mutex, initialize(), and Idt64::handle_interrupt as it is entered by    *)
(* the assembly interrupt stubs on a single CPU.                           *)
(***************************************************************************)
EXTENDS Integers, Naturals, Sequences, FiniteSets, TLC

VARIABLES
    idt,          \* contents of the global IDT: slot index -> Gate64
    idt_lock,     \* holder of the spin::Mutex around IDT, or "unlocked"
    init_pc,      \* index of the next statement of initialize()
    idtr,         \* what lidt has loaded: "none" or "IDT"
    pics_ready,   \* pics::initialize() has run
    int_flag,     \* CPU interrupt flag: interrupt delivery is enabled
    hi_pc,        \* position of the CPU inside handle_interrupt
    ctx,          \* the InterruptCtx64 handed to handle_interrupt
    path,         \* the match arm handle_interrupt took for ctx
    eoi,          \* ids passed to pics::end_pic_interrupt in this dispatch
    halted,       \* the kernel has panicked or halted
    panic_msg,    \* the id printed by the panic message, -1 when none
    gdt64_offset, \* extern static gdt64_offset: u16, exported by boot.asm
    last_add,     \* slot index -> handler of the last add_gate on it, for the
                  \* slots add_gate was called on
    fh_log,       \* every Gate64::from_handler call made: [handler, gate]
    n_add,        \* number of add_gate calls made
    fh_call,      \* the last direct Gate64::from_handler call: [handler, gate]
    link,         \* a RawLink<T>: the raw pointer it wraps, 0 when null
    taken,        \* the RawLink returned by the last take()
    link_ops      \* the operations applied to link, with link's value before each

\* State of the interrupt subsystem proper.
kvars == <<idt, idt_lock, init_pc, idtr, pics_ready, int_flag,
           hi_pc, ctx, path, eoi, halted, panic_msg>>

\* Record of the gate-building calls.
gvars == <<gdt64_offset, last_add, fh_log, n_add, fh_call>>

\* State of the RawLink.
lvars == <<link, taken, link_ops>>

vars == <<kvars, gvars, lvars>>

-----------------------------------------------------------------------------
(* Bounds and constants *)

\* Largest small interrupt id the entry stub is modelled to pass.
MaxIntId == 300

\* int_id is a u32: ids far past the table whose low byte is a CPU exception,
\* the keyboard, or 0xff (the largest is 2^31 - 1).
WideIds == {65536 + 14, 65536 + 33, 2147483647}

\* Number of slots of the table (IDT_ENTRIES).
IDT_ENTRIES == 256

\* GateType::Absent: present bit (bit 7) clear.
GateTypeAbsent == 0

\* GateType::Interrupt: present bit set, type 0b1110.
GateTypeInterrupt == 142

\* The interrupt ids handle_interrupt is given: every vector, ids past the
\* table, and wide 32-bit ids.
IntIds == (0..MaxIntId) \cup WideIds

\* `id as u8`
AsU8(id) == id % 256

\* Bit 7 of a type/attribute byte.
PresentBit(type_attr) == (type_attr \div 128) % 2

\* A u32 field, kept as its two 16-bit halves (bits 0-15, bits 16-31).
U32(lo16, hi16) == <<lo16, hi16>>

-----------------------------------------------------------------------------
(* Gate64 *)

Absent_Present ==
    [ offset_lower |-> 0, selector |-> 0, zero |-> 0
    , type_attr |-> GateTypeInterrupt
    , offset_mid |-> 0, offset_upper |-> U32(0, 0), reserved |-> 0 ]

\* Gate64::absent()
Absent ==
    [ offset_lower |-> 0, selector |-> 0, zero |-> 0
    , type_attr |-> GateTypeAbsent
    , offset_mid |-> 0, offset_upper |-> U32(0, 0), reserved |-> 0 ]

Slots == 0..(IDT_ENTRIES - 1)

\* static IDT = Mutex::new(Idt64([Gate64::absent(); IDT_ENTRIES]))
IDT_Initial == [i \in Slots |-> Absent]

NoCtx == [int_id |-> -1]

\* Values boot.asm may export as gdt64_offset.
GdtOffsets == {8, 16}

\* No handler has been installed (Option<Handler>::None).
NoHandler == <<>>

\* No from_handler call has been made.
NoCall == [handler |-> NoHandler, gate |-> Absent]

\* RawLink::none(): a null pointer.
Null == 0

Init ==
    /\ idt = IDT_Initial
    /\ idt_lock = "unlocked"
    /\ init_pc = 1
    /\ idtr = "none"
    /\ pics_ready = FALSE
    /\ int_flag = FALSE
    /\ hi_pc = "idle"
    /\ ctx = NoCtx
    /\ path = "none"
    /\ eoi = <<>>
    /\ halted = FALSE
    /\ panic_msg = -1
    /\ gdt64_offset \in GdtOffsets
    /\ last_add = <<>>
    /\ fh_log = {}
    /\ n_add = 0
    /\ fh_call = NoCall
    /\ link = Null
    /\ taken = Null
    /\ link_ops = <<>>

-----------------------------------------------------------------------------
(* initialize() *)

InitializeBody_EarlyDrop ==
    << "lock", "load", "pics_initialize", "drop_guard", "enable_interrupts" >>

InitializeBody_StiFirst ==
    << "lock", "enable_interrupts", "load", "pics_initialize", "drop_guard" >>

\* The statements of initialize(), in program order.
InitializeBody ==
    << "lock", "load", "pics_initialize", "enable_interrupts", "drop_guard" >>

InitStmt ==
    IF init_pc <= Len(InitializeBody) THEN InitializeBody[init_pc] ELSE "returned"

\* The kernel thread runs only while the CPU is not inside an interrupt.
KernelRuns == ~halted /\ hi_pc = "idle"

\* let mut idt = IDT.lock();
InitLock ==
    /\ KernelRuns
    /\ InitStmt = "lock"
    /\ idt_lock = "unlocked"
    /\ idt_lock' = "initialize"
    /\ init_pc' = init_pc + 1
    /\ UNCHANGED <<gvars, lvars, idt, idtr, pics_ready, int_flag, hi_pc, ctx, path, eoi,
                   halted, panic_msg>>

\* idt.load();  (lidt)
InitLoad ==
    /\ KernelRuns
    /\ InitStmt = "load"
    /\ idtr' = "IDT"
    /\ init_pc' = init_pc + 1
    /\ UNCHANGED <<gvars, lvars, idt, idt_lock, pics_ready, int_flag, hi_pc, ctx, path, eoi,
                   halted, panic_msg>>

\* pics::initialize();
InitPics ==
    /\ KernelRuns
    /\ InitStmt = "pics_initialize"
    /\ pics_ready' = TRUE
    /\ init_pc' = init_pc + 1
    /\ UNCHANGED <<gvars, lvars, idt, idt_lock, idtr, int_flag, hi_pc, ctx, path, eoi,
                   halted, panic_msg>>

\* Idt64::enable_interrupts();
InitEnableInterrupts ==
    /\ KernelRuns
    /\ InitStmt = "enable_interrupts"
    /\ int_flag' = TRUE
    /\ init_pc' = init_pc + 1
    /\ UNCHANGED <<gvars, lvars, idt, idt_lock, idtr, pics_ready, hi_pc, ctx, path, eoi,
                   halted, panic_msg>>

InitReturn_AfterLateAddGate ==
    /\ KernelRuns
    /\ InitStmt = "drop_guard"
    /\ idt' = [idt EXCEPT ![33] = Absent_Present]
    /\ idt_lock' = "unlocked"
    /\ init_pc' = init_pc + 1
    /\ UNCHANGED <<gvars, lvars, idtr, pics_ready, int_flag, hi_pc, ctx, path, eoi,
                   halted, panic_msg>>

\* End of initialize(): the MutexGuard `idt` is dropped.
InitReturn ==
    /\ KernelRuns
    /\ InitStmt = "drop_guard"
    /\ idt_lock' = "unlocked"
    /\ init_pc' = init_pc + 1
    /\ UNCHANGED <<gvars, lvars, idt, idtr, pics_ready, int_flag, hi_pc, ctx, path, eoi,
                   halted, panic_msg>>

-----------------------------------------------------------------------------
(* Idt64::handle_interrupt *)

Paths == {"cpu_exception", "timer", "keyboard", "unknown"}

MatchArm_NoDefault(id) ==
    IF 0 <= id /\ id <= 15 THEN "cpu_exception"
    ELSE IF id = 32 THEN "timer"
    ELSE IF id = 33 THEN "keyboard"
    ELSE IF id < IDT_ENTRIES /\ id >= 48 THEN "unknown"
    ELSE "none"

MatchArm_ExclusiveRange(id) ==
    IF 0 <= id /\ id < 15 THEN "cpu_exception"
    ELSE IF id = 32 THEN "timer"
    ELSE IF id = 33 THEN "keyboard"
    ELSE "unknown"

MatchArm_OnU8(id) ==
    IF 0 <= AsU8(id) /\ AsU8(id) <= 15 THEN "cpu_exception"
    ELSE IF AsU8(id) = 32 THEN "timer"
    ELSE IF AsU8(id) = 33 THEN "keyboard"
    ELSE "unknown"

\* The patterns of `match id`, in source order.
ArmPattern(k, id) ==
    CASE k = 1 -> 0 <= id /\ id <= 15      \* 0x00...0x0f
      [] k = 2 -> id = 32                  \* 0x20
      [] k = 3 -> id = 33                  \* 0x21
      [] k = 4 -> TRUE                     \* _

ArmName(k) ==
    CASE k = 1 -> "cpu_exception"
      [] k = 2 -> "timer"
      [] k = 3 -> "keyboard"
      [] k = 4 -> "unknown"

\* `match id`: the first arm whose pattern matches.
MatchArm(id) ==
    ArmName(CHOOSE k \in 1..4 :
                /\ ArmPattern(k, id)
                /\ \A j \in 1..(k - 1) : ~ArmPattern(j, id))

\* An interrupt is delivered: the entry stub builds the context and calls
\* handle_interrupt.  The interrupt gate clears the interrupt flag.
Interrupt ==
    /\ ~halted
    /\ int_flag
    /\ hi_pc = "idle"
    /\ \E id \in IntIds : ctx' = [int_id |-> id]
    /\ hi_pc' = "match"
    /\ int_flag' = FALSE
    /\ path' = "none"
    /\ eoi' = <<>>
    /\ UNCHANGED <<gvars, lvars, idt, idt_lock, init_pc, idtr, pics_ready, halted, panic_msg>>

HandleInterruptMatch_ClearsGate ==
    /\ ~halted
    /\ hi_pc = "match"
    /\ LET id  == ctx.int_id
           arm == MatchArm(id)
       IN /\ path' = arm
          /\ hi_pc' = IF arm = "cpu_exception" THEN "cpu_exception"
                      ELSE IF arm = "unknown" THEN "panicked" ELSE "eoi"
          /\ halted' = (arm = "unknown")
          /\ panic_msg' = IF arm = "unknown" THEN id ELSE panic_msg
          /\ idt' = [idt EXCEPT ![AsU8(id)] = Absent]
    /\ UNCHANGED <<gvars, lvars, idt_lock, init_pc, idtr, pics_ready, int_flag, ctx, eoi>>

HandleInterruptMatch_AckFirst ==
    /\ ~halted
    /\ hi_pc = "match"
    /\ LET id  == ctx.int_id
           arm == MatchArm(id)
       IN /\ path' = arm
          /\ hi_pc' = IF arm = "cpu_exception" THEN "cpu_exception"
                      ELSE IF arm = "unknown" THEN "panicked" ELSE "eoi"
          /\ halted' = (arm = "unknown")
          /\ panic_msg' = IF arm = "unknown" THEN id ELSE panic_msg
          /\ eoi' = Append(eoi, AsU8(id))
    /\ UNCHANGED <<gvars, lvars, idt, idt_lock, init_pc, idtr, pics_ready, int_flag, ctx>>

HandleInterruptMatch_Locking ==
    /\ ~halted
    /\ hi_pc = "match"
    /\ idt_lock = "unlocked"
    /\ LET id  == ctx.int_id
           arm == MatchArm(id)
       IN /\ path' = arm
          /\ hi_pc' = IF arm = "cpu_exception" THEN "cpu_exception"
                      ELSE IF arm = "unknown" THEN "panicked" ELSE "eoi"
          /\ halted' = (arm = "unknown")
          /\ panic_msg' = IF arm = "unknown" THEN id ELSE panic_msg
    /\ UNCHANGED <<gvars, lvars, idt, idt_lock, init_pc, idtr, pics_ready, int_flag, ctx, eoi>>

\* let id = state.int_id(); match id { ... }
HandleInterruptMatch ==
    /\ ~halted
    /\ hi_pc = "match"
    /\ LET id  == ctx.int_id
           arm == MatchArm(id)
       IN /\ path' = arm
          /\ hi_pc' = IF arm = "cpu_exception" THEN "cpu_exception"
                      ELSE IF arm = "unknown" THEN "panicked" ELSE "eoi"
          /\ halted' = (arm = "unknown")
          /\ panic_msg' = IF arm = "unknown" THEN id ELSE panic_msg
    /\ UNCHANGED <<gvars, lvars, idt, idt_lock, init_pc, idtr, pics_ready, int_flag, ctx, eoi>>

\* Self::handle_cpu_exception(state) returns.
HandleCpuExceptionReturn ==
    /\ ~halted
    /\ hi_pc = "cpu_exception"
    /\ hi_pc' = "eoi"
    /\ UNCHANGED <<gvars, lvars, idt, idt_lock, init_pc, idtr, pics_ready, int_flag, ctx,
                   path, eoi, halted, panic_msg>>

\* Self::handle_cpu_exception(state) halts: the fault has no recovery.
HandleCpuExceptionHalt ==
    /\ ~halted
    /\ hi_pc = "cpu_exception"
    /\ hi_pc' = "fault_halt"
    /\ halted' = TRUE
    /\ UNCHANGED <<gvars, lvars, idt, idt_lock, init_pc, idtr, pics_ready, int_flag, ctx,
                   path, eoi, panic_msg>>

EndPicInterrupt_Skip ==
    /\ ~halted
    /\ hi_pc = "eoi"
    /\ hi_pc' = "ret"
    /\ UNCHANGED <<gvars, lvars, idt, idt_lock, init_pc, idtr, pics_ready, int_flag, ctx,
                   path, eoi, halted, panic_msg>>

\* pics::end_pic_interrupt(id as u8);
EndPicInterrupt ==
    /\ ~halted
    /\ hi_pc = "eoi"
    /\ eoi' = Append(eoi, AsU8(ctx.int_id))
    /\ hi_pc' = "ret"
    /\ UNCHANGED <<gvars, lvars, idt, idt_lock, init_pc, idtr, pics_ready, int_flag, ctx,
                   path, halted, panic_msg>>

\* handle_interrupt returns; the stub's iret restores the interrupt flag.
InterruptReturn ==
    /\ ~halted
    /\ hi_pc = "ret"
    /\ hi_pc' = "idle"
    /\ int_flag' = TRUE
    /\ ctx' = NoCtx
    /\ path' = "none"
    /\ eoi' = <<>>
    /\ UNCHANGED <<gvars, lvars, idt, idt_lock, init_pc, idtr, pics_ready, halted, panic_msg>>

-----------------------------------------------------------------------------

Next ==
    \/ InitLock
    \/ InitLoad
    \/ InitPics
    \/ InitEnableInterrupts
    \/ InitReturn
    \/ Interrupt
    \/ HandleInterruptMatch
    \/ HandleCpuExceptionReturn
    \/ HandleCpuExceptionHalt
    \/ EndPicInterrupt
    \/ InterruptReturn

Spec == Init /\ [][Next]_vars

-----------------------------------------------------------------------------
(* Gate64::from_handler *)

\* A handler is a 64-bit function address, kept as its four 16-bit words,
\* least significant first.
HandlerWords == {0, 1, 4660, 65280, 65535}

Handlers == {<<a, b, c, d>> : a \in HandlerWords, b \in HandlerWords,
                              c \in HandlerWords, d \in HandlerWords}

\* The eight bytes of a handler address as they lie in memory (x86_64 is
\* little-endian).
Bytes(h) ==
    [k \in 1..8 |-> LET w == h[(k + 1) \div 2]
                    IN IF k % 2 = 1 THEN w % 256 ELSE w \div 256]

\* The u16 and the u32 read at a byte offset of a memory image.
U16At(b, off) == b[off + 1] + 256 * b[off + 2]

U32At(b, off) == U32(U16At(b, off), U16At(b, off + 2))

\* segment::Selector::new(gdt64_offset)
SelectorNew(offset) == offset

Transmute_HighFirst(h) ==
    LET b == Bytes(h)
    IN [high |-> U32At(b, 0), low |-> U16At(b, 4), mid |-> U16At(b, 6)]

\* let (low, mid, high): (u16, u16, u32) = mem::transmute(handler);
\* the tuple's fields lie in declaration order.
Transmute(h) ==
    LET b == Bytes(h)
    IN [low |-> U16At(b, 0), mid |-> U16At(b, 2), high |-> U32At(b, 4)]

FromHandler_AbsentType(h) ==
    LET t == Transmute(h)
    IN [ offset_lower |-> t.low, selector |-> SelectorNew(gdt64_offset), zero |-> 0
       , type_attr |-> GateTypeAbsent
       , offset_mid |-> t.mid, offset_upper |-> t.high, reserved |-> 0 ]

FromHandler_CallOrder(h) ==
    LET t == Transmute(h)
    IN [ offset_lower |-> t.low
       , selector |-> SelectorNew(gdt64_offset + 8 * n_add), zero |-> 0
       , type_attr |-> GateTypeInterrupt
       , offset_mid |-> t.mid, offset_upper |-> t.high, reserved |-> 0 ]

\* Gate64::from_handler(handler)
FromHandler(h) ==
    LET t == Transmute(h)
    IN [ offset_lower |-> t.low, selector |-> SelectorNew(gdt64_offset), zero |-> 0
       , type_attr |-> GateTypeInterrupt
       , offset_mid |-> t.mid, offset_upper |-> t.high, reserved |-> 0 ]

\* A direct call of Gate64::from_handler.
FromHandlerCall ==
    /\ \E h \in Handlers : fh_call' = [handler |-> h, gate |-> FromHandler(h)]
    /\ UNCHANGED <<kvars, lvars, gdt64_offset, last_add, fh_log, n_add>>

NextGate == FromHandlerCall

SpecGate == Init /\ [][NextGate]_vars

-----------------------------------------------------------------------------
(* Idt64::add_gate *)

\* Largest number of add_gate calls in a run.
MaxAddGates == 2

\* The slots and the handlers add_gate is called with.
GateSlots == {0, 33, IDT_ENTRIES - 1}

GateHandlers == {<<4660, 65280, 1, 65535>>, <<65535, 0, 0, 65280>>}

\* The interrupts delivered while gates are being installed.
SomeIntIds == {14, 33, 200}

AddGate_KeepFirst(table, index, handler) ==
    IF table[index] = Absent
    THEN [table EXCEPT ![index] = FromHandler(handler)]
    ELSE table

AddGate_ClobbersNext(table, index, handler) ==
    [table EXCEPT ![index] = FromHandler(handler),
                  ![(index + 1) % IDT_ENTRIES] = FromHandler(handler)]

\* self.0[index] = Gate64::from_handler(handler)
AddGate(table, index, handler) ==
    [table EXCEPT ![index] = FromHandler(handler)]

\* A call of add_gate on the global IDT by code that holds its guard:
\* initialize() itself, or code that locks IDT around the call.
AddGateCall ==
    /\ KernelRuns
    /\ n_add < MaxAddGates
    /\ \E i \in GateSlots, h \in GateHandlers :
          /\ idt' = AddGate(idt, i, h)
          /\ last_add' = [j \in DOMAIN last_add \cup {i} |->
                              IF j = i THEN h ELSE last_add[j]]
          /\ fh_log' = fh_log \cup
                {[handler |-> h, gate |-> FromHandler(h), at |-> init_pc]}
    /\ n_add' = n_add + 1
    /\ UNCHANGED <<lvars, gdt64_offset, fh_call, idt_lock, init_pc, idtr,
                   pics_ready, int_flag, hi_pc, ctx, path, eoi, halted, panic_msg>>

\* Interrupt, for a few interrupt ids.
InterruptSome ==
    /\ ~halted
    /\ int_flag
    /\ hi_pc = "idle"
    /\ \E id \in SomeIntIds : ctx' = [int_id |-> id]
    /\ hi_pc' = "match"
    /\ int_flag' = FALSE
    /\ path' = "none"
    /\ eoi' = <<>>
    /\ UNCHANGED <<gvars, lvars, idt, idt_lock, init_pc, idtr, pics_ready,
                   halted, panic_msg>>

NextTable ==
    \/ InitLock
    \/ InitLoad
    \/ InitPics
    \/ InitEnableInterrupts
    \/ InitReturn
    \/ AddGateCall
    \/ InterruptSome
    \/ HandleInterruptMatch
    \/ HandleCpuExceptionReturn
    \/ HandleCpuExceptionHalt
    \/ EndPicInterrupt
    \/ InterruptReturn

\* boot.asm puts the 64-bit code segment at one offset.
InitTable == Init /\ gdt64_offset = 8

SpecTable == InitTable /\ [][NextTable]_vars

-----------------------------------------------------------------------------
(* RawLink *)

\* Largest address a RawLink is made to point at.
MaxAddr == 3

\* The non-null pointers.
Addrs == 1..MaxAddr

\* RawLink::is_none
IsNone(l) == l = Null

\* RawLink::is_some
IsSome(l) == ~IsNone(l)

Take_NoReplace(l) == [ret |-> l, self |-> l]

\* RawLink::take: mem::replace(self, Self::none())
Take(l) == [ret |-> l, self |-> Null]

\* The last two operations on the link.
Record(op) ==
    LET all == Append(link_ops, [op |-> op, before |-> link])
    IN IF Len(all) > 2 THEN Tail(all) ELSE all

\* link = RawLink::some(&mut thing)
RawLinkSome ==
    /\ \E a \in Addrs : link' = a
    /\ link_ops' = Record("some")
    /\ UNCHANGED <<kvars, gvars, taken>>

\* link = RawLink::none()
RawLinkNone ==
    /\ link' = Null
    /\ link_ops' = Record("none")
    /\ UNCHANGED <<kvars, gvars, taken>>

\* taken = link.take()
RawLinkTake ==
    /\ taken' = Take(link).ret
    /\ link' = Take(link).self
    /\ link_ops' = Record("take")
    /\ UNCHANGED <<kvars, gvars>>

NextRawLink ==
    \/ RawLinkSome
    \/ RawLinkNone
    \/ RawLinkTake

SpecRawLink == Init /\ [][NextRawLink]_vars

-----------------------------------------------------------------------------
(* Properties *)

\* One step of handle_interrupt, whichever it is.
DispatchStep ==
    \/ HandleInterruptMatch
    \/ HandleCpuExceptionReturn
    \/ HandleCpuExceptionHalt
    \/ EndPicInterrupt
    \/ InterruptReturn

\* handle_interrupt has classified the id of ctx.
Classified == hi_pc \notin {"idle", "match"}

\* handle_interrupt has ended: it is about to return, or it has halted.
DispatchEnded == hi_pc \in {"ret", "panicked", "fault_halt"}

CpuExceptionIds == 0..15
DeviceIds == {32, 33}

\* C1: whatever branch handle_interrupt took, when the dispatch has ended
\* (returning or halted) end_pic_interrupt has been called exactly once, with
\* the id that was dispatched.
C1_AckOnceOnEveryBranch ==
    DispatchEnded => eoi = <<ctx.int_id>>

\* C2: every id in 0..255 is routed to exactly one of the fault path, the
\* known-device path and the unrecognized-fatal path.
C2_ClassificationTotal ==
    (Classified /\ ctx.int_id \in Slots) =>
        LET fault  == path = "cpu_exception"
            device == path \in {"timer", "keyboard"}
            fatal  == path = "unknown"
        IN /\ path \in Paths
           /\ Cardinality({p \in {"fault", "device", "fatal"} :
                            \/ p = "fault" /\ fault
                            \/ p = "device" /\ device
                            \/ p = "fatal" /\ fatal}) = 1

C2_Witness ==
    /\ hi_pc = "panicked" /\ ctx.int_id = 255 /\ path = "unknown"

\* C3: ids 0 through 15 take the fault path (handle_cpu_exception), never the
\* unrecognized-fatal path.
C3_ExceptionsTakeFaultPath ==
    (Classified /\ ctx.int_id \in CpuExceptionIds) =>
        /\ path = "cpu_exception"
        /\ hi_pc # "panicked"
        /\ panic_msg = -1

C3_Witness ==
    /\ ctx.int_id = 14 /\ hi_pc = "cpu_exception" /\ path = "cpu_exception"

C5_DeviceIdsAreNoOps ==
    (Classified /\ ctx.int_id \in DeviceIds) =>
        /\ path = (IF ctx.int_id = 32 THEN "timer" ELSE "keyboard")
        /\ ~halted
        /\ panic_msg = -1
        /\ hi_pc \in {"eoi", "ret"}
        /\ hi_pc = "eoi" => (eoi = <<>> /\ ENABLED EndPicInterrupt)
        /\ hi_pc = "ret" => (eoi = <<ctx.int_id>> /\ ENABLED InterruptReturn)

C5_Witness ==
    /\ ctx.int_id = 33 /\ path = "keyboard" /\ hi_pc = "ret" /\ eoi = <<33>>

\* C6: initialize() loads the table, then initializes the PICs, then enables
\* interrupts; no interrupt is dispatched before the table is loaded and the
\* controller initialized.
C6_ActivationOrder ==
    /\ pics_ready => idtr = "IDT"
    /\ int_flag => (idtr = "IDT" /\ pics_ready)
    /\ hi_pc # "idle" => (idtr = "IDT" /\ pics_ready)

C6_Witness ==
    /\ hi_pc = "match" /\ idtr = "IDT" /\ pics_ready /\ InitStmt = "drop_guard"

\* C7: initialize() installs handler-bound gates before it loads the table,
\* so the loaded table is never the all-absent table.
C7_LoadedTableIsConfigured ==
    idtr = "IDT" => \E i \in Slots : PresentBit(idt[i].type_attr) = 1

\* C8: handle_interrupt never takes or waits for the IDT lock: while a
\* dispatch is in progress and the kernel has not halted, its next step can
\* be taken, also when the preempted code holds the lock.
C8_DispatcherNeverWaitsOnLock ==
    /\ idt_lock \in {"unlocked", "initialize"}
    /\ (hi_pc # "idle" /\ ~halted) => ENABLED DispatchStep

C8_Witness ==
    /\ hi_pc = "ret" /\ idt_lock = "initialize" /\ int_flag = FALSE

\* Interrupt delivery has been enabled (the flag is clear only while the CPU
\* is inside handle_interrupt).
Activated == int_flag \/ hi_pc # "idle"

\* C9: once interrupt delivery has been enabled the table is never written
\* again, and the kernel never leaves the active state.
C9_NoTableWriteAfterActivation ==
    [][Activated => (/\ idt' = idt
                     /\ Activated'
                     /\ idtr' = "IDT"
                     /\ pics_ready')]_vars

C9_Witness ==
    /\ Activated /\ InitStmt = "returned" /\ hi_pc = "ret"

\* C10: in the initial value of IDT every slot holds the absent gate: the
\* three offset fields, zero and reserved are 0 and the type/attribute byte
\* is the not-present value.
C10_UnconfiguredTableAllAbsent ==
    init_pc = 1 =>
        /\ DOMAIN idt = Slots
        /\ \A i \in Slots :
              /\ idt[i].offset_lower = 0
              /\ idt[i].offset_mid = 0
              /\ idt[i].offset_upper = U32(0, 0)
              /\ idt[i].zero = 0
              /\ idt[i].reserved = 0
              /\ idt[i].type_attr = GateTypeAbsent
              /\ PresentBit(idt[i].type_attr) = 0

C10_Witness ==
    /\ init_pc = 1 /\ idtr = "none" /\ idt[IDT_ENTRIES - 1].type_attr = GateTypeAbsent

\* The address a gate points at: offset_lower is bits 0-15, offset_mid bits
\* 16-31, offset_upper bits 32-63.
GateAddress(g) ==
    <<g.offset_lower, g.offset_mid, g.offset_upper[1], g.offset_upper[2]>>

\* C12: recombining offset_lower, offset_mid and offset_upper of
\* from_handler(h) gives back the 64-bit address h.
C12_FromHandlerRoundTrip ==
    fh_call # NoCall => GateAddress(fh_call.gate) = fh_call.handler

C12_Witness ==
    /\ fh_call.handler = <<4660, 65280, 1, 65535>>
    /\ fh_call.gate.offset_lower = 4660
    /\ fh_call.gate.offset_upper = U32(1, 65535)

\* C14: from_handler(h) carries the kernel code-segment selector, the
\* present interrupt-gate type byte and zero in `zero` and `reserved`; it is
\* never the absent gate, not even for address 0.
C14_HandlerGateIsPresent ==
    fh_call # NoCall =>
        LET g == fh_call.gate
        IN /\ g.selector = SelectorNew(gdt64_offset)
           /\ g.selector \in GdtOffsets
           /\ g.type_attr = GateTypeInterrupt
           /\ PresentBit(g.type_attr) = 1
           /\ g.type_attr % 16 = 14
           /\ g.zero = 0
           /\ g.reserved = 0
           /\ g # Absent

C14_Witness ==
    /\ fh_call.handler = <<0, 0, 0, 0>>
    /\ GateAddress(fh_call.gate) = <<0, 0, 0, 0>>
    /\ fh_call.gate # Absent

\* C11: after add_gate(i, h) slot i is from_handler(h); a second add_gate on
\* the same slot leaves only the second handler's gate.
C11_AddGateLastWriteWins ==
    \A i \in DOMAIN last_add :
            /\ idt[i] = FromHandler(last_add[i])
            /\ GateAddress(idt[i]) = last_add[i]

C11_Witness ==
    /\ n_add = 2
    /\ Cardinality({c.handler : c \in fh_log}) = 2
    /\ DOMAIN last_add = {33}
    /\ last_add[33] = <<4660, 65280, 1, 65535>>
    /\ GateAddress(idt[33]) = <<4660, 65280, 1, 65535>>

C16_DispatchLeavesTable ==
    [][/\ (hi_pc # "idle" \/ hi_pc' # "idle") => idt' = idt
       /\ (hi_pc = "match" /\ hi_pc' # "match") =>
              path' = (IF ctx.int_id \in CpuExceptionIds THEN "cpu_exception"
                       ELSE IF ctx.int_id = 32 THEN "timer"
                       ELSE IF ctx.int_id = 33 THEN "keyboard"
                       ELSE "unknown")]_vars

C16_Witness ==
    /\ hi_pc = "ret" /\ ctx.int_id = 33
    /\ idt[33] # Absent /\ 33 \in DOMAIN last_add

\* C17: add_gate(i, h) changes slot i only: a slot that no add_gate targeted
\* holds the absent gate, and every slot of the loaded table is either
\* absent or a handler's gate.
C17_AddGateTouchesOneSlot ==
    \A i \in Slots :
        /\ i \notin DOMAIN last_add => idt[i] = Absent
        /\ idtr = "IDT" =>
              \/ idt[i] = Absent
              \/ \E h \in GateHandlers : idt[i] = FromHandler(h)

C17_Witness ==
    /\ idtr = "IDT" /\ n_add = 2
    /\ DOMAIN last_add = {0, IDT_ENTRIES - 1}
    /\ idt[1] = Absent /\ idt[IDT_ENTRIES - 2] = Absent

\* C15: take() returns the link's value from before the call and leaves
\* RawLink::none(): afterwards is_none() is true and is_some() false, and a
\* second take() returns none and changes nothing.
C15_TakeLeavesNone ==
    LET n == Len(link_ops)
    IN /\ (n >= 1 /\ link_ops[n].op = "take") =>
              /\ taken = link_ops[n].before
              /\ link = Null
              /\ IsNone(link)
              /\ ~IsSome(link)
       /\ (n >= 2 /\ link_ops[n].op = "take" /\ link_ops[n - 1].op = "take") =>
              /\ taken = Null
              /\ link = link_ops[n].before

C15_Witness ==
    /\ Len(link_ops) = 2
    /\ link_ops[1] = [op |-> "take", before |-> MaxAddr]
    /\ link_ops[2] = [op |-> "take", before |-> Null]
    /\ taken = Null /\ link = Null

\* C18: within a dispatch end_pic_interrupt is issued after the handling
\* branch has completed and before handle_interrupt returns, never before or
\* during the branch.
C18_AckAfterHandling ==
    /\ hi_pc \in {"idle", "match", "cpu_exception", "eoi", "panicked", "fault_halt"}
          => eoi = <<>>
    /\ hi_pc = "ret" =>
          /\ eoi = <<AsU8(ctx.int_id)>>
          /\ path \in {"cpu_exception", "timer", "keyboard"}
          /\ ~halted

C18_Witness ==
    /\ hi_pc = "ret" /\ path = "cpu_exception" /\ ctx.int_id = 14 /\ eoi = <<14>>

\* C19: initialize() holds the IDT mutex from before the table load until
\* after interrupts are enabled, so interrupts arrive while it is held, and
\* releases it when it returns; the lock has at most one holder.
C19_InitializeHoldsLock ==
    /\ idt_lock \in {"unlocked", "initialize"}
    /\ InitStmt = "lock" => idt_lock = "unlocked"
    /\ InitStmt \in {"load", "pics_initialize", "enable_interrupts", "drop_guard"}
          => idt_lock = "initialize"
    /\ (idtr = "IDT" /\ ~Activated) => idt_lock = "initialize"
    /\ InitStmt = "returned" => (idt_lock = "unlocked" /\ Activated)

C19_Witness ==
    /\ hi_pc = "match" /\ idt_lock = "initialize" /\ InitStmt = "drop_guard"
    /\ path = "none"

====
